---- MODULE Spec2Model ----
(***************************************************************************)
(* A model of htsgetserver: the path router (server.py), content           *)
(* negotiation, error mapping and the ticket cache of the API handlers     *)
(* (__init__.py), and the BAM header-size scan (utils.py).                  *)
(***************************************************************************)
EXTENDS Integers, Sequences, FiniteSets, TLC

\* ------------------------------------------------------------------------
\* Bounds of the model
\* ------------------------------------------------------------------------
\* longest path (in segments) handed to add_route / get_route_handler
MaxPathLen == 2
\* number of add_route calls in one run of the router specification
MaxAdds == 2
\* number of connections accepted, one worker thread each
NumWorkers == 2
\* most components of the version text of an Accept header
MaxVersionLen == 4
\* most BGZF blocks of a BAM file, most bytes of its header text, most
\* references, most bytes of a reference name
MaxBlocks == 2
MaxText == 1
MaxRefs == 1
MaxName == 1
\* the parsed index: reference entries, and intervals of a reference entry
MaxIndexRefs == 2
MaxIntervals == 2
\* the return codes a caller registers with an error type: 2..MaxReturnCode
MaxReturnCode == 3
\* most connections clients open while the server listens
MaxConnections == 2

\* ------------------------------------------------------------------------
\* Router (server.py)
\* ------------------------------------------------------------------------
VARIABLES
    routes,      \* Router.routes: the nested dict, as a tree of nodes
    registered,  \* history: the add_route calls that returned, in order
    addError,    \* the exception of the last add_route call, or "none"
    lookup       \* the last get_route_handler call: its path and its outcome

routerVars == <<routes, registered, addError, lookup>>

VARIABLES
    pc,          \* where each worker thread is in do_GET
    request,     \* the request of each worker: headers, path, query fields
    frame,       \* the local variables of each worker
    response,    \* what each worker has sent: status, content type, body
    cache,       \* ApiRouteHandler._cache of each API handler
    cache_lock,  \* ApiRouteHandler._cache_lock of each API handler: 0 or its holder
    indexes,     \* data store: the index resources that exist
    resources,   \* data store: the resources registered by add_resource
    did,         \* history: the steps each worker has executed
    cachedAtStart \* history: the keys each cache held when the worker started

serverVars ==
    <<pc, request, frame, response, cache, cache_lock, indexes, resources, did, cachedAtStart>>

VARIABLES
    bam,         \* the BAM resource: its raw bytes and its decompressed bytes
    scan,        \* get_bam_header_size: its position and its local variables
    index        \* the index_resource argument: absent, or the index parse_index gives

scanVars == <<bam, scan, index>>

VARIABLE
    runner       \* run_interruptible on an HtsgetServerRunner: position and locals

runVars == <<runner>>

vars == <<routerVars, serverVars, scanVars, runVars>>

Segments == {"a", "b"}
Handlers == {"H1", "H2"}

RECURSIVE SeqsUpTo(_, _)
SeqsUpTo(S, n) ==
    IF n = 0 THEN {<<>>}
    ELSE LET shorter == SeqsUpTo(S, n - 1)
         IN  shorter \cup {Append(p, s) : p \in {q \in shorter : Len(q) = n - 1}, s \in S}

Paths == SeqsUpTo(Segments, MaxPathLen)

\* the paths looked up: a registered path and up to one more segment
LookupPaths == SeqsUpTo(Segments, MaxPathLen + 1)

\* A value of the nested dict: an inner dict or a bound handler.
DictNode(items) == [kind |-> "dict", items |-> items]
HandlerNode(h) == [kind |-> "handler", h |-> h]
EmptyDict == DictNode(<<>>)
IsDict(node) == node.kind = "dict"

SetItem(d, key, val) == DictNode((key :> val) @@ d.items)

\* add_route on the dict d. The result carries the dict as the call leaves it
\* and the exception that ended the call ("none" when it returned).
RECURSIVE add_route(_, _, _)
add_route(d, path, handler) ==
    IF Len(path) = 0
    THEN [err |-> "IndexError", node |-> d]                 \* path[-1] of an empty path
    ELSE IF ~IsDict(d)
    THEN [err |-> "TypeError", node |-> d]                  \* `in` / item assignment on a handler
    ELSE IF Len(path) = 1
    THEN [err |-> "none", node |-> SetItem(d, path[1], HandlerNode(handler))]
    ELSE LET part  == Head(path)
             d1    == IF part \notin DOMAIN d.items THEN SetItem(d, part, EmptyDict) ELSE d
             below == add_route(d1.items[part], Tail(path), handler)
         IN  [err |-> below.err, node |-> SetItem(d1, part, below.node)]

\* get_route_handler returning path[i:] in the place of path[i+1:]
RECURSIVE get_route_handler_KeepsSegment(_, _)
get_route_handler_KeepsSegment(d, path) ==
    IF Len(path) = 0
    THEN [err |-> "NotFound"]
    ELSE IF Head(path) \notin DOMAIN d.items
    THEN [err |-> "NotFound"]
    ELSE LET val == d.items[Head(path)]
         IN  IF IsDict(val)
             THEN get_route_handler_KeepsSegment(val, Tail(path))
             ELSE [err |-> "none", handler |-> val.h, rest |-> path]

\* get_route_handler on the dict d: (handler, remaining segments) or NotFound.
RECURSIVE get_route_handler(_, _)
get_route_handler(d, path) ==
    IF Len(path) = 0
    THEN [err |-> "NotFound"]                               \* the for loop's else clause
    ELSE IF Head(path) \notin DOMAIN d.items
    THEN [err |-> "NotFound"]
    ELSE LET val == d.items[Head(path)]
         IN  IF IsDict(val)
             THEN get_route_handler(val, Tail(path))
             ELSE [err |-> "none", handler |-> val.h, rest |-> Tail(path)]

RouterIdle ==
    /\ registered = <<>>
    /\ addError = "none"
    /\ lookup = [path |-> <<>>, result |-> [err |-> "unset"]]

\* The routes are registered before the server starts (create_default_router)
\* and resolved afterwards; get_route_handler changes nothing, so a run is a
\* sequence of add_route calls followed by one get_route_handler call.
NotResolvedYet == lookup.result.err = "unset"

AddRoute(path, handler) ==
    /\ Len(registered) < MaxAdds
    /\ NotResolvedYet
    /\ LET r == add_route(routes, path, handler)
       IN  /\ routes' = r.node
           /\ addError' = r.err
           /\ registered' = IF r.err = "none"
                            THEN Append(registered, [path |-> path, handler |-> handler])
                            ELSE registered
    /\ UNCHANGED <<lookup, serverVars, scanVars, runVars>>

GetRouteHandler(path) ==
    /\ NotResolvedYet
    /\ lookup' = [path |-> path, result |-> get_route_handler(routes, path)]
    /\ UNCHANGED <<routes, registered, addError, serverVars, scanVars, runVars>>

\* ------------------------------------------------------------------------
\* Strings: a Python str is the sequence of its characters
\* ------------------------------------------------------------------------
Digits == <<"0", "1", "2", "3", "4", "5", "6", "7", "8", "9">>

DigitValue(c) == (CHOOSE i \in 1..10 : Digits[i] = c) - 1

IsDigit(c) == \E i \in 1..10 : Digits[i] = c

UpperToLower ==
    [A |-> "a", B |-> "b", C |-> "c", D |-> "d", E |-> "e", F |-> "f", G |-> "g",
     H |-> "h", I |-> "i", J |-> "j", K |-> "k", L |-> "l", M |-> "m", N |-> "n",
     O |-> "o", P |-> "p", Q |-> "q", R |-> "r", S |-> "s", T |-> "t", U |-> "u",
     V |-> "v", W |-> "w", X |-> "x", Y |-> "y", Z |-> "z"]

\* str.lower()
lower(s) == [i \in 1..Len(s) |-> IF s[i] \in DOMAIN UpperToLower THEN UpperToLower[s[i]] ELSE s[i]]

\* str.startswith / str.endswith
startswith(s, prefix) ==
    /\ Len(s) >= Len(prefix)
    /\ \A i \in 1..Len(prefix) : s[i] = prefix[i]

endswith(s, suffix) ==
    /\ Len(s) >= Len(suffix)
    /\ \A i \in 1..Len(suffix) : s[Len(s) - Len(suffix) + i] = suffix[i]

\* s[start:] and s[start:-back] with Python's clipping of the two ends
SliceFrom(s, start) ==
    IF start >= Len(s) THEN <<>> ELSE [i \in 1..(Len(s) - start) |-> s[start + i]]

SliceBetween(s, start, back) ==
    LET stop == IF Len(s) - back < 0 THEN 0 ELSE Len(s) - back
    IN  IF start >= stop THEN <<>> ELSE [i \in 1..(stop - start) |-> s[start + i]]

\* str.split(sep) for a one-character separator: always at least one piece
RECURSIVE split(_, _)
split(s, sep) ==
    IF \A i \in 1..Len(s) : s[i] # sep
    THEN <<s>>
    ELSE LET k == CHOOSE i \in 1..Len(s) : s[i] = sep /\ \A j \in 1..(i - 1) : s[j] # sep
         IN  <<SliceBetween(s, 0, Len(s) - k + 1)>> \o split(SliceFrom(s, k), sep)

RECURSIVE DigitsValue(_)
DigitsValue(s) ==
    IF Len(s) = 0 THEN 0
    ELSE 10 * DigitsValue(SliceBetween(s, 0, 1)) + DigitValue(s[Len(s)])

\* int(v) for a str of letters, digits and signs: an optional sign and at least
\* one decimal digit, anything else is a ValueError.
int(v) ==
    LET signed == Len(v) > 0 /\ v[1] \in {"+", "-"}
        body   == IF signed THEN SliceFrom(v, 1) ELSE v
    IN  IF Len(body) = 0 \/ \E i \in 1..Len(body) : ~IsDigit(body[i])
        THEN [err |-> "ValueError"]
        ELSE [err |-> "none",
              value |-> IF signed /\ v[1] = "-" THEN 0 - DigitsValue(body) ELSE DigitsValue(body)]

\* a < b for two tuples of integers (Python's lexicographic order)
RECURSIVE TupleLess(_, _)
TupleLess(a, b) ==
    IF Len(b) = 0 THEN FALSE
    ELSE IF Len(a) = 0 THEN TRUE
    ELSE IF a[1] # b[1] THEN a[1] < b[1]
    ELSE TupleLess(Tail(a), Tail(b))

\* ------------------------------------------------------------------------
\* Errors (server.py, __init__.py)
\* ------------------------------------------------------------------------
OK == 200
NOT_FOUND == 404
UNSUPPORTED_MEDIA_TYPE == 415
INTERNAL_SERVER_ERROR == 500

\* A text (an error kind, a message) is a sequence of pieces: a literal, or a
\* literal followed by the characters of the str formatted into it; "" is the
\* empty sequence.
\* An exception object. cause is the __cause__ set by `raise ... from`, as a
\* sequence of zero or one exception. A non-HTTP exception has status 0.
Exception(cls, args) ==
    [cls |-> cls, status |-> 0, error_type |-> <<>>, args |-> args, cause |-> <<>>]

\* HttpError.__init__(status, error_type, *args)
HttpError(cls, status, error_type, args) ==
    [cls |-> cls, status |-> status, error_type |-> error_type, args |-> args, cause |-> <<>>]

IsHttpError(err) ==
    err.cls \in {"HttpError", "NotFoundHttpError", "UnknownHttpError",
                 "UnsupportedMediaTypeHttpError"}

NotFoundHttpError ==
    HttpError("NotFoundHttpError", NOT_FOUND, <<"NotFound">>,
              <<(<<"The resource requested was not found">>)>>)

\* the message is handed to HttpError.__init__ in the place of error_type
UnsupportedMediaTypeHttpError(media_type) ==
    HttpError("UnsupportedMediaTypeHttpError", UNSUPPORTED_MEDIA_TYPE,
              <<"The requested media type is unsupported: ">> \o media_type, <<>>)

\* `raise UnknownHttpError from err`
UnknownHttpErrorFrom(err) ==
    [HttpError("UnknownHttpError", INTERNAL_SERVER_ERROR, <<"UnknownError">>, <<>>)
        EXCEPT !.cause = <<err>>]

\* HttpError.message: args[0], else the cause's args[0], else "". Without a
\* cause __cause__ is None and reading its args raises AttributeError.
message(err) ==
    IF Len(err.args) > 0 THEN [err |-> "none", value |-> err.args[1]]
    ELSE IF Len(err.cause) = 0 THEN [err |-> "AttributeError"]
    ELSE IF Len(err.cause[1].args) > 0 THEN [err |-> "none", value |-> err.cause[1].args[1]]
    ELSE [err |-> "none", value |-> <<>>]

\* ------------------------------------------------------------------------
\* Content negotiation (__init__.py)
\* ------------------------------------------------------------------------
HTSGET_VERSION == <<1, 1, 0>>

APPLICATION == <<"a", "p", "p", "l", "i", "c", "a", "t", "i", "o", "n", "/">>
JSON == <<"j", "s", "o", "n">>
VND_PREFIX ==
    <<"v", "n", "d", ".", "g", "a", "4", "g", "h", ".", "h", "t", "s", "g", "e", "t", ".", "v">>
PLUS_JSON == <<"+", "j", "s", "o", "n">>

\* tuple(int(v) for v in pieces): the integers, or the first ValueError
RECURSIVE Ints(_)
Ints(pieces) ==
    IF Len(pieces) = 0 THEN [err |-> "none", value |-> <<>>]
    ELSE LET first == int(Head(pieces))
             rest  == Ints(Tail(pieces))
         IN  IF first.err # "none" THEN [err |-> first.err]
             ELSE IF rest.err # "none" THEN [err |-> rest.err]
             ELSE [err |-> "none", value |-> <<first.value>> \o rest.value]

\* the text the version is parsed from: accept[18:-5], a slice of the whole
\* header and not of accept_app
VersionText(accept) == SliceBetween(accept, 18, 5)

\* the test that rejects a parsed version
VersionRejected(version) ==
    \/ TupleLess(version, HTSGET_VERSION)
    \/ version[1] > HTSGET_VERSION[1]

\* check_headers with an except clause that swallows the parse error
check_headers_ParseErrorIgnored(headers) ==
    IF "Accept" \notin DOMAIN headers THEN [err |-> "none"]
    ELSE LET accept     == headers["Accept"]
             accept_app == lower(SliceFrom(accept, 12))
             rejected   == [err |-> "raised", exc |-> UnsupportedMediaTypeHttpError(accept)]
         IN  IF ~startswith(accept, APPLICATION) THEN rejected
             ELSE IF accept_app = JSON THEN [err |-> "none"]
             ELSE IF startswith(accept_app, VND_PREFIX) /\ endswith(accept_app, PLUS_JSON)
             THEN LET version == Ints(split(VersionText(accept), "."))
                  IN  IF version.err # "none" THEN [err |-> "none"]
                      ELSE IF VersionRejected(version.value) THEN rejected
                      ELSE [err |-> "none"]
             ELSE rejected

\* check_headers without the test of the "application/" prefix
check_headers_NoPrefixTest(headers) ==
    IF "Accept" \notin DOMAIN headers THEN [err |-> "none"]
    ELSE LET accept     == headers["Accept"]
             accept_app == lower(SliceFrom(accept, 12))
             rejected   == [err |-> "raised", exc |-> UnsupportedMediaTypeHttpError(accept)]
         IN  IF accept_app = JSON THEN [err |-> "none"]
             ELSE IF startswith(accept_app, VND_PREFIX) /\ endswith(accept_app, PLUS_JSON)
             THEN LET version == Ints(split(VersionText(accept), "."))
                  IN  IF version.err # "none" THEN rejected
                      ELSE IF VersionRejected(version.value) THEN rejected
                      ELSE [err |-> "none"]
             ELSE rejected

\* check_headers: [err |-> "none"] when it returns, else the exception raised
check_headers(headers) ==
    IF "Accept" \notin DOMAIN headers THEN [err |-> "none"]
    ELSE LET accept     == headers["Accept"]
             accept_app == lower(SliceFrom(accept, 12))
             rejected   == [err |-> "raised", exc |-> UnsupportedMediaTypeHttpError(accept)]
         IN  IF ~startswith(accept, APPLICATION) THEN rejected
             ELSE IF accept_app = JSON THEN [err |-> "none"]
             ELSE IF startswith(accept_app, VND_PREFIX) /\ endswith(accept_app, PLUS_JSON)
             THEN LET version == Ints(split(VersionText(accept), "."))
                  IN  IF version.err # "none" THEN rejected
                      ELSE IF VersionRejected(version.value) THEN rejected
                      ELSE [err |-> "none"]
             ELSE rejected

\* ------------------------------------------------------------------------
\* Route handlers and the ticket (__init__.py)
\* ------------------------------------------------------------------------
READS == <<"r", "e", "a", "d", "s">>
VARIANTS == <<"v", "a", "r", "i", "a", "n", "t", "s">>
BLOCK == <<"b", "l", "o", "c", "k">>
TICKETS == <<"t", "i", "c", "k", "e", "t", "s">>
FORMAT == <<"f", "o", "r", "m", "a", "t">>

\* The handler objects bound in a router. InheritingApiRouteHandler stands for
\* a concrete ApiRouteHandler that inherits handle and create_ticket_urls and
\* defines the abstract members as ReadsApiRouteHandler does.
ApiHandlers == {"ReadsApiRouteHandler", "VariantsApiRouteHandler", "InheritingApiRouteHandler"}

\* the subclasses whose handle is overridden by an empty body
HandleOverridden(handler) == handler \in {"ReadsApiRouteHandler", "VariantsApiRouteHandler"}

default_format(handler) ==
    IF handler = "VariantsApiRouteHandler" THEN <<"V", "C", "F">> ELSE <<"B", "A", "M">>

index_format(handler) ==
    IF handler = "VariantsApiRouteHandler" THEN <<"T", "B", "I">> ELSE <<"B", "A", "I">>

\* create_default_router: the three add_route calls on a new Router
create_default_router ==
    LET r1 == add_route(EmptyDict, <<READS>>, "ReadsApiRouteHandler").node
        r2 == add_route(r1, <<VARIANTS>>, "VariantsApiRouteHandler").node
    IN  add_route(r2, <<BLOCK>>, "BlockRouteHandler").node

\* a router handed to run(): the default routes and one inheriting handler
TicketsRouter == add_route(create_default_router, <<TICKETS>>, "InheritingApiRouteHandler").node

\* repr of a str without quotes or escapes in it
repr(text) == <<"'">> \o text \o <<"'">>

\* parse_qs(query, True, True) on a query given as its &-separated fields,
\* each <<name, value>> or, without "=", <<text>>: the dict of value lists in
\* the order of the fields, or for a field without "=" the
\* ValueError("bad query field: %r" % (name_value,)) of strict parsing.
RECURSIVE parse_qs(_)
parse_qs(fields) ==
    IF Len(fields) = 0 THEN [err |-> "none", dict |-> <<>>]
    ELSE LET last == fields[Len(fields)]
             init == parse_qs(SubSeq(fields, 1, Len(fields) - 1))
         IN  IF init.err # "none" THEN init
             ELSE IF Len(last) # 2
             THEN [err |-> "ValueError",
                   exc |-> Exception("ValueError", <<(<<"bad query field: ">> \o repr(last))>>)]
             ELSE LET name == last[1]
                      old  == IF name \in DOMAIN init.dict THEN init.dict[name] ELSE <<>>
                  IN  [err |-> "none", dict |-> (name :> Append(old, last[2])) @@ init.dict]

\* query.get('format', self.default_format): a list of str when the query
\* names a format, the handler's str otherwise
DataFormat(query, handler) ==
    IF FORMAT \in DOMAIN query
    THEN [type |-> "list", value |-> query[FORMAT]]
    ELSE [type |-> "str", value |-> default_format(handler)]

LowerToUpper ==
    [a |-> "A", b |-> "B", c |-> "C", d |-> "D", e |-> "E", f |-> "F", g |-> "G",
     h |-> "H", i |-> "I", j |-> "J", k |-> "K", l |-> "L", m |-> "M", n |-> "N",
     o |-> "O", p |-> "P", q |-> "Q", r |-> "R", s |-> "S", t |-> "T", u |-> "U",
     v |-> "V", w |-> "W", x |-> "X", y |-> "Y", z |-> "Z"]

\* str.upper()
upper(s) == [i \in 1..Len(s) |-> IF s[i] \in DOMAIN LowerToUpper THEN LowerToUpper[s[i]] ELSE s[i]]

\* create_ticket_urls of ApiRouteHandler: an empty body, so None
None == <<"None">>

create_ticket_urls(data_format, query, data_resource, index_resource) == None

\* json.dumps of a str of letters and digits, of None, and of the two dicts
\* the server serializes
DumpsStr(s) == <<"\"">> \o s \o <<"\"">>

DumpsValue(v) == IF v = None THEN <<"null">> ELSE DumpsStr(v)

DumpsTicket(format, urls) ==
    <<"{\"htsget\": {\"format\": ">> \o DumpsStr(format) \o <<", \"urls\": ">>
        \o DumpsValue(urls) \o <<"}}">>

DumpsError(error, msg) ==
    <<"{\"htsget\": {\"error\": ">> \o DumpsStr(error) \o <<", \"message\": ">>
        \o DumpsStr(msg) \o <<"}}">>

\* the ticket of handle: data_format.upper() raises AttributeError on a list
\* a ticket built from the one format of the list a query yields
TicketStr_FormatOfList(data_format, query, data_resource, index_resource) ==
    LET ticket_urls == create_ticket_urls(data_format, query, data_resource, index_resource)
        format == IF data_format.type = "str" THEN data_format.value ELSE data_format.value[1]
    IN  [err |-> "none", value |-> DumpsTicket(upper(format), ticket_urls)]

TicketStr(data_format, query, data_resource, index_resource) ==
    LET ticket_urls == create_ticket_urls(data_format, query, data_resource, index_resource)
    IN  IF data_format.type # "str"
        THEN [err |-> "raised",
              exc |-> Exception("AttributeError",
                                <<(<<"'list' object has no attribute 'upper'">>)>>)]
        ELSE [err |-> "none", value |-> DumpsTicket(upper(data_format.value), ticket_urls)]

\* The data store collaborator: resolve is a function of its arguments. The
\* store holds the record in the formats of KnownFormats, named in either
\* case, as a str or as the one-element list a query yields; anything else is
\* not found.
KnownFormats == {<<"b", "a", "m">>, <<"c", "r", "a", "m">>, <<"v", "c", "f">>}

FormatName(data_format) ==
    IF data_format.type = "str" THEN lower(data_format.value)
    ELSE IF Len(data_format.value) = 1 THEN lower(data_format.value[1])
    ELSE <<>>

resolve(record_id, data_format, index_fmt) ==
    IF FormatName(data_format) \in KnownFormats
    THEN [err |-> "none",
          data_resource  |-> [id |-> record_id, ext |-> FormatName(data_format)],
          index_resource |-> [id |-> record_id, ext |-> FormatName(data_format) \o <<".">> \o lower(index_fmt)]]
    ELSE [err |-> "raised", exc |-> NotFoundHttpError]

\* ------------------------------------------------------------------------
\* The server: one worker thread per accepted connection
\* ------------------------------------------------------------------------
Workers == 1..NumWorkers

NoResource == [id |-> <<>>, ext |-> <<>>]
NoFormat == [type |-> "none", value |-> <<>>]
NoError == Exception("none", <<>>)

NewFrame ==
    [handler |-> "none", sub_route |-> <<>>, query |-> <<>>, data_format |-> NoFormat,
     data_resource |-> NoResource, index_resource |-> NoResource, ticket_str |-> <<>>,
     err |-> NoError]

\* what a worker has put on its connection: the status lines sent so far
\* (heads), and of the last of them the status, the Content-Type sent before
\* the blank line and the text after it; the exception that left do_GET
NoResponse ==
    [status |-> 0, content_type |-> <<>>, body |-> <<>>, uncaught |-> "none", heads |-> 0]

\* BaseHTTPRequestHandler.send_error(status): the status line, Content-Type
\* text/html and the error page of http.server
TEXT_HTML == <<"text/html;charset=utf-8">>

\* the code, the phrase and the description of an HTTPStatus
StatusText(status) ==
    CASE status = NOT_FOUND ->
             <<"404", "Not Found", "Nothing matches the given URI">>
      [] status = UNSUPPORTED_MEDIA_TYPE ->
             <<"415", "Unsupported Media Type", "Entity body in unsupported format">>
      [] status = INTERNAL_SERVER_ERROR ->
             <<"500", "Internal Server Error", "Server got itself in trouble">>
      [] OTHER -> <<"200", "OK", "Request fulfilled, document follows">>

\* http.server.DEFAULT_ERROR_MESSAGE % {code, message, explain}
ErrorPage(status) ==
    LET code    == StatusText(status)[1]
        phrase  == StatusText(status)[2]
        explain == StatusText(status)[3]
    IN  << "<!DOCTYPE HTML>\n<html lang=\"en\">\n    <head>\n",
           "        <meta charset=\"utf-8\">\n",
           "        <title>Error response</title>\n    </head>\n    <body>\n",
           "        <h1>Error response</h1>\n",
           "        <p>Error code: ", code, "</p>\n",
           "        <p>Message: ", phrase, ".</p>\n",
           "        <p>Error code explanation: ", code, " - ", explain, ".</p>\n",
           "    </body>\n</html>\n" >>

\* send_header("Content-type", ...) and end_headers() after send_error: the
\* header line and the blank line follow the page on the stream
TrailingHeader(content_type) == <<"Content-type: ">> \o content_type \o <<"\r\n\r\n">>

\* self.wfile.write(text) with a str: wfile is the binary stream of the
\* connection (socketserver.StreamRequestHandler), which takes bytes only
wfile_write(text) ==
    [err |-> "raised",
     exc |-> Exception("TypeError", <<(<<"a bytes-like object is required, not 'str'">>)>>)]

OK_RESPONSE_CONTENT_TYPE ==
    <<"application/vnd.ga4gh.htsget.v{'.'.join(HTSGET_VERSION)}+json; charset=utf-8">>
ERROR_RESPONSE_CONTENT_TYPE == <<"application/json">>

ServerIdle ==
    /\ pc = [w \in Workers |-> "idle"]
    /\ request = [w \in Workers |-> [headers |-> <<>>, path |-> <<>>, query |-> <<>>]]
    /\ frame = [w \in Workers |-> NewFrame]
    /\ response = [w \in Workers |-> NoResponse]
    /\ cache = [h \in ApiHandlers |-> <<>>]
    /\ cache_lock = [h \in ApiHandlers |-> 0]
    /\ resources = {}
    /\ did = [w \in Workers |-> {}]
    /\ cachedAtStart = [w \in Workers |-> [h \in ApiHandlers |-> {}]]

\* do_GET's except clauses: an HttpError goes to handle_error as it is, any
\* other exception wrapped by `raise UnknownHttpError from err`
Raise(w, exc, step) ==
    /\ pc' = [pc EXCEPT ![w] = "handle_error"]
    /\ frame' = [frame EXCEPT ![w].err = IF IsHttpError(exc) THEN exc ELSE UnknownHttpErrorFrom(exc)]
    /\ did' = [did EXCEPT ![w] = @ \cup {step}]

Goto(w, next, step) ==
    /\ pc' = [pc EXCEPT ![w] = next]
    /\ did' = [did EXCEPT ![w] = @ \cup {step}]

\* ThreadedHttpServer.process_request: a new thread for the connection
ProcessRequest(w, requests) ==
    /\ pc[w] = "idle"
    /\ \A v \in Workers : v < w => pc[v] # "idle"
    /\ pc' = [pc EXCEPT ![w] = "check_headers"]
    /\ \E req \in requests : request' = [request EXCEPT ![w] = req]
    /\ cachedAtStart' = [cachedAtStart EXCEPT ![w] = [h \in ApiHandlers |-> DOMAIN cache[h]]]
    /\ UNCHANGED <<routerVars, scanVars, runVars, frame, response, cache, cache_lock, indexes, resources, did>>

\* a do_GET that notes the failure of check_headers and routes all the same
CheckHeaders_RoutesAnyway(w) ==
    /\ pc[w] = "check_headers"
    /\ LET r == check_headers(request[w].headers)
       IN  /\ Goto(w, "route_request", "check_headers")
           /\ frame' = IF r.err = "none" THEN frame ELSE [frame EXCEPT ![w].err = r.exc]
    /\ UNCHANGED <<routerVars, scanVars, runVars, request, response, cache, cache_lock, indexes, resources,
                   cachedAtStart>>

\* do_GET: self.check_headers()
CheckHeaders(w) ==
    /\ pc[w] = "check_headers"
    /\ LET r == check_headers(request[w].headers)
       IN  IF r.err = "none"
           THEN Goto(w, "route_request", "check_headers") /\ UNCHANGED frame
           ELSE Raise(w, r.exc, "check_headers")
    /\ UNCHANGED <<routerVars, scanVars, runVars, request, response, cache, cache_lock, indexes, resources,
                   cachedAtStart>>

\* route_request up to the call of the route handler
RouteRequest(w) ==
    /\ pc[w] = "route_request"
    /\ LET path == request[w].path
       IN  IF Len(path) = 0 \/ ~startswith(path, <<"/">>)
           THEN Raise(w, NotFoundHttpError, "route_request")
           ELSE LET path_parts == split(SliceFrom(path, 1), "/")
                    found      == get_route_handler(routes, path_parts)
                IN  IF found.err # "none"
                    THEN Raise(w, NotFoundHttpError, "route_request")
                    ELSE /\ pc' = [pc EXCEPT ![w] = "call"]
                         /\ did' = [did EXCEPT ![w] = @ \cup {"route_request"}]
                         /\ frame' = [frame EXCEPT ![w].handler = found.handler,
                                                   ![w].sub_route = found.rest]
    /\ UNCHANGED <<routerVars, scanVars, runVars, request, response, cache, cache_lock, indexes, resources,
                   cachedAtStart>>

\* __call__ without its sub-route test
CallHandler_SubRouteUnchecked(w) ==
    /\ pc[w] = "call"
    /\ LET handler == frame[w].handler
           parsed  == parse_qs(request[w].query)
       IN  IF handler = "BlockRouteHandler"
           THEN Goto(w, "done", "call") /\ UNCHANGED frame
           ELSE IF parsed.err # "none"
           THEN Raise(w, parsed.exc, "call")
           ELSE IF HandleOverridden(handler)
           THEN Goto(w, "done", "call") /\ UNCHANGED frame
           ELSE /\ pc' = [pc EXCEPT ![w] = "resolve"]
                /\ did' = [did EXCEPT ![w] = @ \cup {"call"}]
                /\ frame' = [frame EXCEPT ![w].query = parsed.dict]
    /\ UNCHANGED <<routerVars, scanVars, runVars, request, response, cache, cache_lock, indexes, resources,
                   cachedAtStart>>

\* route_handler(sub_route, parsed, self): BlockRouteHandler.__call__ is empty;
\* ApiRouteHandler.__call__ checks the sub-route, parses the query and calls
\* handle, which ReadsApiRouteHandler and VariantsApiRouteHandler leave empty.
CallHandler(w) ==
    /\ pc[w] = "call"
    /\ LET handler == frame[w].handler
           parsed  == parse_qs(request[w].query)
       IN  IF handler = "BlockRouteHandler"
           THEN Goto(w, "done", "call") /\ UNCHANGED frame
           ELSE IF Len(frame[w].sub_route) # 0
           THEN Raise(w, NotFoundHttpError, "call")
           ELSE IF parsed.err # "none"
           THEN Raise(w, parsed.exc, "call")
           ELSE IF HandleOverridden(handler)
           THEN Goto(w, "done", "call") /\ UNCHANGED frame
           ELSE /\ pc' = [pc EXCEPT ![w] = "resolve"]
                /\ did' = [did EXCEPT ![w] = @ \cup {"call"}]
                /\ frame' = [frame EXCEPT ![w].query = parsed.dict]
    /\ UNCHANGED <<routerVars, scanVars, runVars, request, response, cache, cache_lock, indexes, resources,
                   cachedAtStart>>

\* handle: data_format and self.data_store.resolve(...)
Resolve(w) ==
    /\ pc[w] = "resolve"
    /\ LET handler     == frame[w].handler
           data_format == DataFormat(frame[w].query, handler)
           r           == resolve(frame[w].sub_route, data_format, index_format(handler))
       IN  IF r.err # "none"
           THEN Raise(w, r.exc, "resolve")
           ELSE /\ pc' = [pc EXCEPT ![w] = "cache_check"]
                /\ did' = [did EXCEPT ![w] = @ \cup {"resolve"}]
                /\ frame' = [frame EXCEPT ![w].data_format = data_format,
                                          ![w].data_resource = r.data_resource,
                                          ![w].index_resource = r.index_resource]
    /\ UNCHANGED <<routerVars, scanVars, runVars, request, response, cache, cache_lock, indexes, resources,
                   cachedAtStart>>

\* a membership test that never finds the key
InCache_NeverFound(c, data_resource) == data_resource \in {}

\* `data_resource in self._cache`
InCache(c, data_resource) == data_resource \in DOMAIN c

\* self._cache.pop(data_resource) in the place of self._cache[data_resource]
CacheLookup_Pop(c, data_resource) ==
    [value |-> c[data_resource],
     cache |-> [k \in DOMAIN c \ {data_resource} |-> c[k]]]

\* json.dumps applied once more to the cached str
CacheLookup_DumpedAgain(c, data_resource) ==
    [value |-> <<"\"">> \o c[data_resource] \o <<"\"">>, cache |-> c]

\* self._cache[data_resource]: the value read, and the dict as the read leaves it
CacheLookup(c, data_resource) == [value |-> c[data_resource], cache |-> c]

\* handle: `if data_resource in self._cache`, read without the lock
CacheCheck(w) ==
    /\ pc[w] = "cache_check"
    /\ IF InCache(cache[frame[w].handler], frame[w].data_resource)
       THEN Goto(w, "cache_read", "cache_check")
       ELSE Goto(w, "index_check", "cache_check")
    /\ UNCHANGED <<routerVars, scanVars, runVars, request, frame, response, cache, cache_lock, indexes,
                   resources, cachedAtStart>>

\* handle: ticket_str = self._cache[data_resource]
CacheRead(w) ==
    /\ pc[w] = "cache_read"
    /\ LET c == cache[frame[w].handler]
       IN  IF frame[w].data_resource \in DOMAIN c
           THEN LET read == CacheLookup(c, frame[w].data_resource)
                IN  /\ pc' = [pc EXCEPT ![w] = "send"]
                    /\ did' = [did EXCEPT ![w] = @ \cup {"cache_read"}]
                    /\ frame' = [frame EXCEPT ![w].ticket_str = read.value]
                    /\ cache' = [cache EXCEPT ![frame[w].handler] = read.cache]
           ELSE Raise(w, Exception("KeyError", <<>>), "cache_read") /\ UNCHANGED cache
    /\ UNCHANGED <<routerVars, scanVars, runVars, request, response, cache_lock, indexes, resources,
                   cachedAtStart>>

\* handle: `if not index_resource.exists`
IndexCheck(w) ==
    /\ pc[w] = "index_check"
    /\ IF frame[w].index_resource \in indexes
       THEN Goto(w, "build", "index_check")
       ELSE Goto(w, "create_index", "index_check")
    /\ UNCHANGED <<routerVars, scanVars, runVars, request, frame, response, cache, cache_lock, indexes,
                   resources, cachedAtStart>>

\* a create_index that puts a placeholder for the key in the cache
CreateIndex_CachesPlaceholder(w) ==
    /\ pc[w] = "create_index"
    /\ cache' = [cache EXCEPT ![frame[w].handler] = (frame[w].data_resource :> <<>>) @@ @]
    /\ Goto(w, "add_resource", "create_index")
    /\ UNCHANGED <<routerVars, scanVars, runVars, request, frame, response, cache_lock, indexes,
                   resources, cachedAtStart>>

\* handle: self.create_index(data_resource, index_resource). The method is
\* `pass` in ApiRouteHandler, ReadsApiRouteHandler and VariantsApiRouteHandler:
\* it returns, nothing is built and index_resource.exists is as it was
CreateIndex(w) ==
    /\ pc[w] = "create_index"
    /\ Goto(w, "add_resource", "create_index")
    /\ UNCHANGED <<routerVars, scanVars, runVars, request, frame, response, cache, cache_lock,
                   indexes, resources, cachedAtStart>>

\* handle: self.data_store.add_resource(index_resource)
AddResource(w) ==
    /\ pc[w] = "add_resource"
    /\ resources' = resources \cup {frame[w].index_resource}
    /\ Goto(w, "build", "add_resource")
    /\ UNCHANGED <<routerVars, scanVars, runVars, request, frame, response, cache, cache_lock, indexes,
                   cachedAtStart>>

\* handle: create_ticket_urls, the ticket dict and json.dumps
BuildTicket(w) ==
    /\ pc[w] = "build"
    /\ LET t == TicketStr(frame[w].data_format, frame[w].query, frame[w].data_resource,
                          frame[w].index_resource)
       IN  IF t.err # "none"
           THEN Raise(w, t.exc, "build")
           ELSE /\ pc' = [pc EXCEPT ![w] = "acquire"]
                /\ did' = [did EXCEPT ![w] = @ \cup {"build"}]
                /\ frame' = [frame EXCEPT ![w].ticket_str = t.value]
    /\ UNCHANGED <<routerVars, scanVars, runVars, request, response, cache, cache_lock, indexes, resources,
                   cachedAtStart>>

\* an acquire that does not wait for the holder
AcquireLock_NoWait(w) ==
    /\ pc[w] = "acquire"
    /\ cache_lock' = [cache_lock EXCEPT ![frame[w].handler] = w]
    /\ Goto(w, "insert", "acquire")
    /\ UNCHANGED <<routerVars, scanVars, runVars, request, frame, response, cache, indexes, resources,
                   cachedAtStart>>

\* handle: self._cache_lock.acquire()
AcquireLock(w) ==
    /\ pc[w] = "acquire"
    /\ cache_lock[frame[w].handler] = 0
    /\ cache_lock' = [cache_lock EXCEPT ![frame[w].handler] = w]
    /\ Goto(w, "insert", "acquire")
    /\ UNCHANGED <<routerVars, scanVars, runVars, request, frame, response, cache, indexes, resources,
                   cachedAtStart>>

\* the cache after `if data_resource not in self._cache: self._cache[...] = ticket_str`
Inserted(c, data_resource, ticket_str) ==
    IF data_resource \notin DOMAIN c THEN (data_resource :> ticket_str) @@ c ELSE c

CacheInsert(w) ==
    /\ pc[w] = "insert"
    /\ cache' = [cache EXCEPT ![frame[w].handler] =
                    Inserted(@, frame[w].data_resource, frame[w].ticket_str)]
    /\ Goto(w, "release", "insert")
    /\ UNCHANGED <<routerVars, scanVars, runVars, request, frame, response, cache_lock, indexes, resources,
                   cachedAtStart>>

\* handle: finally: self._cache_lock.release()
ReleaseLock(w) ==
    /\ pc[w] = "release"
    /\ cache_lock' = [cache_lock EXCEPT ![frame[w].handler] = 0]
    /\ Goto(w, "send", "release")
    /\ UNCHANGED <<routerVars, scanVars, runVars, request, frame, response, cache, indexes, resources,
                   cachedAtStart>>

\* handle: send_response(OK), the Content-Type header and end_headers put the
\* head of a 200 response on the stream; wfile.write(ticket_str) then fails
\* and do_GET wraps the failure
SendTicket(w) ==
    /\ pc[w] = "send"
    /\ response' = [response EXCEPT ![w] =
                       [status |-> OK, content_type |-> OK_RESPONSE_CONTENT_TYPE,
                        body |-> <<>>, uncaught |-> "none", heads |-> @.heads + 1]]
    /\ LET written == wfile_write(frame[w].ticket_str)
       IN  Raise(w, written.exc, "send")
    /\ UNCHANGED <<routerVars, scanVars, runVars, request, cache, cache_lock, indexes, resources,
                   cachedAtStart>>

\* handle_error: send_error(err.status) sends a whole error response, the
\* Content-type header and the blank line follow it, then the body is built
\* from err.error_type and err.message and written; the exception of
\* err.message or of the write leaves handle_error and do_GET uncaught
HandleError(w) ==
    /\ pc[w] = "handle_error"
    /\ LET err     == frame[w].err
           msg     == message(err)
           written == wfile_write(IF msg.err # "none" THEN <<>>
                                  ELSE DumpsError(err.error_type, msg.value))
       IN  response' = [response EXCEPT ![w] =
              [status |-> err.status, content_type |-> TEXT_HTML,
               body |-> ErrorPage(err.status) \o TrailingHeader(ERROR_RESPONSE_CONTENT_TYPE),
               uncaught |-> IF msg.err # "none" THEN msg.err ELSE written.exc.cls,
               heads |-> @.heads + 1]]
    /\ Goto(w, "done", "handle_error")
    /\ UNCHANGED <<routerVars, scanVars, runVars, request, frame, cache, cache_lock, indexes, resources,
                   cachedAtStart>>

\* ------------------------------------------------------------------------
\* get_bam_header_size, without an index (utils.py)
\* ------------------------------------------------------------------------
RECURSIVE Power(_, _)
Power(b, n) == IF n = 0 THEN 1 ELSE b * Power(b, n - 1)

\* n as `width` little-endian bytes
LittleEndian(n, width) == [i \in 1..width |-> (n \div Power(256, i - 1)) % 256]

Zeros(n) == [i \in 1..n |-> 0]

\* BinReader on a byte stream: the `width` bytes after `pos`, or EOF
ReadBytes(stream, pos, width) ==
    IF pos + width > Len(stream)
    THEN [err |-> "EOF"]
    ELSE [err |-> "none", bytes |-> SubSeq(stream, pos + 1, pos + width), pos |-> pos + width]

RECURSIVE FromLittleEndian(_)
FromLittleEndian(bytes) ==
    IF Len(bytes) = 0 THEN 0 ELSE bytes[1] + 256 * FromLittleEndian(Tail(bytes))

\* read_uint, read_ushort: an unsigned little-endian integer of `width` bytes
ReadUnsigned(stream, pos, width) ==
    LET r == ReadBytes(stream, pos, width)
    IN  IF r.err # "none" THEN r
        ELSE [err |-> "none", value |-> FromLittleEndian(r.bytes), pos |-> r.pos]

\* read_int: a signed little-endian integer of 4 bytes
ReadInt(stream, pos) ==
    LET r == ReadBytes(stream, pos, 4)
    IN  IF r.err # "none" THEN r
        ELSE [err |-> "none", pos |-> r.pos,
              value |-> FromLittleEndian(SubSeq(r.bytes, 1, 3))
                          + Power(256, 3) * (IF r.bytes[4] >= 128 THEN r.bytes[4] - 256
                                             ELSE r.bytes[4])]

\* the loop over the references: l_name, the name, l_ref; 8 + l_name each
RECURSIVE ReadReferences(_, _, _, _)
ReadReferences(stream, pos, n_ref, size) ==
    IF n_ref <= 0 THEN [err |-> "none", value |-> size]
    ELSE LET l_name == ReadInt(stream, pos)
         IN  IF l_name.err # "none" THEN [err |-> l_name.err]
             ELSE LET name == ReadBytes(stream, l_name.pos, l_name.value)
                  IN  IF name.err # "none" THEN [err |-> name.err]
                      ELSE LET l_ref == ReadInt(stream, name.pos)
                           IN  IF l_ref.err # "none" THEN [err |-> l_ref.err]
                               ELSE ReadReferences(stream, l_ref.pos, n_ref - 1,
                                                   size + 8 + l_name.value)

\* the first pass counting 4 + 4 + l_text, without the 4 bytes of n_ref
UncompressedSize_WithoutCount(stream) ==
    LET magic == ReadBytes(stream, 0, 4)
    IN  IF magic.err # "none" THEN [err |-> magic.err]
        ELSE LET l_text == ReadInt(stream, magic.pos)
             IN  IF l_text.err # "none" THEN [err |-> l_text.err]
                 ELSE LET text == ReadBytes(stream, l_text.pos, l_text.value)
                      IN  IF text.err # "none" THEN [err |-> text.err]
                          ELSE LET n_ref == ReadInt(stream, text.pos)
                               IN  IF n_ref.err # "none" THEN [err |-> n_ref.err]
                                   ELSE ReadReferences(stream, n_ref.pos, n_ref.value,
                                                       8 + l_text.value)

\* the first pass, on the decompressed bytes: uncompressed_size
UncompressedSize(stream) ==
    LET magic == ReadBytes(stream, 0, 4)
    IN  IF magic.err # "none" THEN [err |-> magic.err]
        ELSE LET l_text == ReadInt(stream, magic.pos)
             IN  IF l_text.err # "none" THEN [err |-> l_text.err]
                 ELSE LET text == ReadBytes(stream, l_text.pos, l_text.value)
                      IN  IF text.err # "none" THEN [err |-> text.err]
                          ELSE LET n_ref == ReadInt(stream, text.pos)
                               IN  IF n_ref.err # "none" THEN [err |-> n_ref.err]
                                   ELSE ReadReferences(stream, n_ref.pos, n_ref.value,
                                                       12 + l_text.value)

\* `reader.ushort()`: BinReader comes from the ngsindex package, which is not
\* part of the repository; its other 2-byte read is named read_ushort, so the
\* call either reads the unsigned short or fails for want of the attribute
ReaderHasUshort == BOOLEAN

\* the loop's turn without the test of SLEN
ReadBlock_SlenUnchecked(raw, pos, has_ushort) ==
    LET fixed == ReadBytes(raw, pos, 10)          \* fixed values, MTIME, XFL and OS
        xlen  == ReadUnsigned(raw, pos + 10, 2)
        ids   == ReadBytes(raw, pos + 12, 2)
        slen  == ReadUnsigned(raw, pos + 14, 2)
        bsize == ReadUnsigned(raw, pos + 16, 2)   \* reader.ushort()
    IN  IF fixed.err # "none" \/ xlen.err # "none" THEN [err |-> "EOF"]
        ELSE IF xlen.value # 6
        THEN [err |-> "ValueError", msg |-> "Extra RFC1952 subfields not yet supported"]
        ELSE IF ids.err # "none" THEN [err |-> "EOF"]
        ELSE IF ids.bytes # <<66, 67>>
        THEN [err |-> "ValueError", msg |-> "Invalid subfield identifier"]
        ELSE IF slen.err # "none" THEN [err |-> "EOF"]
        ELSE IF ~has_ushort THEN [err |-> "AttributeError"]
        ELSE IF bsize.err # "none" THEN [err |-> "EOF"]
        ELSE LET cdata == ReadBytes(raw, pos + 18, bsize.value - xlen.value - 19)
             IN  IF bsize.value - xlen.value - 19 < 0 \/ cdata.err # "none"
                 THEN [err |-> "EOF"]
                 ELSE LET isize == ReadUnsigned(raw, cdata.pos + 4, 4)   \* after CRC32
                      IN  IF isize.err # "none" THEN [err |-> "EOF"]
                          ELSE [err |-> "none", bsize |-> bsize.value,
                                isize |-> isize.value, pos |-> isize.pos]

\* one turn of the second pass's loop, on the raw bytes from pos: the block's
\* bsize and ISIZE and the position after it, or the error raised
ReadBlock(raw, pos, has_ushort) ==
    LET fixed == ReadBytes(raw, pos, 10)          \* fixed values, MTIME, XFL and OS
        xlen  == ReadUnsigned(raw, pos + 10, 2)
        ids   == ReadBytes(raw, pos + 12, 2)
        slen  == ReadUnsigned(raw, pos + 14, 2)
        bsize == ReadUnsigned(raw, pos + 16, 2)   \* reader.ushort()
    IN  IF fixed.err # "none" \/ xlen.err # "none" THEN [err |-> "EOF"]
        ELSE IF xlen.value # 6
        THEN [err |-> "ValueError", msg |-> "Extra RFC1952 subfields not yet supported"]
        ELSE IF ids.err # "none" THEN [err |-> "EOF"]
        ELSE IF ids.bytes # <<66, 67>>
        THEN [err |-> "ValueError", msg |-> "Invalid subfield identifier"]
        ELSE IF slen.err # "none" THEN [err |-> "EOF"]
        ELSE IF slen.value # 2
        THEN [err |-> "ValueError", msg |-> "Invalid subfield length"]
        ELSE IF ~has_ushort THEN [err |-> "AttributeError"]
        ELSE IF bsize.err # "none" THEN [err |-> "EOF"]
        ELSE LET cdata == ReadBytes(raw, pos + 18, bsize.value - xlen.value - 19)
             IN  IF bsize.value - xlen.value - 19 < 0 \/ cdata.err # "none"
                 THEN [err |-> "EOF"]
                 ELSE LET isize == ReadUnsigned(raw, cdata.pos + 4, 4)   \* after CRC32
                      IN  IF isize.err # "none" THEN [err |-> "EOF"]
                          ELSE [err |-> "none", bsize |-> bsize.value,
                                isize |-> isize.value, pos |-> isize.pos]

\* the value returned once the loop has ended
HeaderSizeResult(header_size) == header_size + 1

\* BAM files: the header fields and the BGZF blocks they are written from
WellFormed(bsize, isize) ==
    [xlen |-> 6, ids |-> <<66, 67>>, slen |-> 2, bsize |-> bsize, isize |-> isize]

BlockSizes == {25, 27}
DeclaredSizes == {8, 12, 30}

Blocks ==
    {WellFormed(b, i) : b \in BlockSizes, i \in DeclaredSizes}
        \cup { [WellFormed(27, 30) EXCEPT !.xlen = 7],
               [WellFormed(27, 30) EXCEPT !.ids = <<66, 68>>],
               [WellFormed(27, 30) EXCEPT !.slen = 3] }

EncodeBlock(b) ==
    <<31, 139, 8, 4>> \o LittleEndian(0, 4) \o <<0, 255>> \o LittleEndian(b.xlen, 2)
        \o b.ids \o LittleEndian(b.slen, 2) \o LittleEndian(b.bsize, 2)
        \o Zeros(b.bsize - b.xlen - 19) \o LittleEndian(0, 4) \o LittleEndian(b.isize, 4)

RECURSIVE EncodeBlocks(_)
EncodeBlocks(blocks) ==
    IF Len(blocks) = 0 THEN <<>> ELSE EncodeBlock(Head(blocks)) \o EncodeBlocks(Tail(blocks))

RECURSIVE EncodeReferences(_)
EncodeReferences(l_names) ==
    IF Len(l_names) = 0 THEN <<>>
    ELSE LittleEndian(Head(l_names), 4) \o Zeros(Head(l_names)) \o LittleEndian(0, 4)
             \o EncodeReferences(Tail(l_names))

EncodeHeader(l_text, l_names) ==
    <<66, 65, 77, 1>> \o LittleEndian(l_text, 4) \o Zeros(l_text)
        \o LittleEndian(Len(l_names), 4) \o EncodeReferences(l_names)

RECURSIVE SumISize(_)
SumISize(blocks) == IF Len(blocks) = 0 THEN 0 ELSE Head(blocks).isize + SumISize(Tail(blocks))

\* the decompressed bytes: the header and the records after it, as many bytes
\* as the blocks declare
Decompressed(l_text, l_names, blocks) ==
    LET all == EncodeHeader(l_text, l_names) \o Zeros(SumISize(blocks))
    IN  SubSeq(all, 1, SumISize(blocks))

BamFile(l_text, l_names, blocks) ==
    [l_text |-> l_text, l_names |-> l_names, blocks |-> blocks,
     raw |-> EncodeBlocks(blocks), data |-> Decompressed(l_text, l_names, blocks)]

BamFiles ==
    {BamFile(l_text, l_names, blocks) :
        l_text \in 0..MaxText,
        l_names \in SeqsUpTo(0..MaxName, MaxRefs),
        blocks \in SeqsUpTo(Blocks, MaxBlocks) \ {<<>>}}

NewScan ==
    [pc |-> "open", uncompressed_size |-> 0, header_size |-> 0, block_size |-> 0,
     pos |-> 0, blocks_read |-> 0, result |-> 0, error |-> "none", has_ushort |-> TRUE]

\* index_resource: None, or a resource whose parsed index has ref_indexes,
\* each with intervals, each with a file_offset
NoIndex == [given |-> FALSE, ref_indexes |-> <<>>]

FileOffsets == {200, 500, 800}

Intervals == SeqsUpTo([file_offset : FileOffsets], MaxIntervals)

Indexes ==
    {[given |-> TRUE, ref_indexes |-> refs] :
        refs \in SeqsUpTo([intervals : Intervals], MaxIndexRefs)}

\* the generator `offset.file_offset for ref_index in index.ref_indexes for
\* offset in ref_index.intervals`, in the order it yields
RECURSIVE FileOffsetsOf(_)
FileOffsetsOf(ref_indexes) ==
    IF Len(ref_indexes) = 0 THEN <<>>
    ELSE [i \in 1..Len(Head(ref_indexes).intervals) |-> Head(ref_indexes).intervals[i].file_offset]
             \o FileOffsetsOf(Tail(ref_indexes))

\* a min that returns the first item
min_FirstItem(items) ==
    IF Len(items) = 0 THEN [err |-> "ValueError"]
    ELSE [err |-> "none", value |-> Head(items)]

\* min(iterable): the least item, ValueError when there is none
RECURSIVE min(_)
min(items) ==
    IF Len(items) = 0 THEN [err |-> "ValueError"]
    ELSE IF Len(items) = 1 THEN [err |-> "none", value |-> Head(items)]
    ELSE LET rest == min(Tail(items))
         IN  [err |-> "none",
              value |-> IF rest.value < Head(items) THEN rest.value ELSE Head(items)]

ScanIdle ==
    /\ bam = BamFile(0, <<>>, <<>>)
    /\ scan = NewScan
    /\ index = NoIndex

\* get_bam_header_size(bam_resource, index_resource): the else branch
ReturnMinOffset ==
    /\ scan.pc = "open"
    /\ index.given
    /\ LET least == min(FileOffsetsOf(index.ref_indexes))
       IN  scan' = IF least.err # "none"
                   THEN [scan EXCEPT !.pc = "raised", !.error = least.err]
                   ELSE [scan EXCEPT !.pc = "returned", !.result = least.value]
    /\ UNCHANGED <<bam, index, routerVars, serverVars, runVars>>

\* get_bam_header_size(bam_resource), first `with`: uncompressed_size
ReadBamHeader ==
    /\ scan.pc = "open"
    /\ ~index.given
    /\ LET size == UncompressedSize(bam.data)
       IN  scan' = IF size.err # "none"
                   THEN [scan EXCEPT !.pc = "raised", !.error = size.err]
                   ELSE [scan EXCEPT !.pc = "blocks", !.uncompressed_size = size.value]
    /\ UNCHANGED <<bam, index, routerVars, serverVars, runVars>>

\* one turn of `while block_size < uncompressed_size`
ReadBgzfBlock ==
    /\ scan.pc = "blocks"
    /\ scan.block_size < scan.uncompressed_size
    /\ LET b == ReadBlock(bam.raw, scan.pos, scan.has_ushort)
       IN  scan' = IF b.err # "none"
                   THEN [scan EXCEPT !.pc = "raised", !.error = b.err]
                   ELSE [scan EXCEPT !.header_size = @ + b.bsize,
                                     !.block_size = @ + b.isize,
                                     !.pos = b.pos,
                                     !.blocks_read = @ + 1]
    /\ UNCHANGED <<bam, index, routerVars, serverVars, runVars>>

\* return header_size + 1
ReturnHeaderSize ==
    /\ scan.pc = "blocks"
    /\ ~(scan.block_size < scan.uncompressed_size)
    /\ scan' = [scan EXCEPT !.pc = "returned", !.result = HeaderSizeResult(scan.header_size)]
    /\ UNCHANGED <<bam, index, routerVars, serverVars, runVars>>

\* ------------------------------------------------------------------------
\* run_interruptible on an HtsgetServerRunner (utils.py, __init__.py)
\* ------------------------------------------------------------------------
RETCODE_INTERRUPTED == 130
RETCODE_ERROR == 1

\* the classes of the exceptions met here, each with its base classes
BaseClasses(cls) ==
    CASE cls = "KeyboardInterrupt" -> {"KeyboardInterrupt", "BaseException"}
      [] cls = "OSError"           -> {"OSError", "Exception", "BaseException"}
      [] cls = "gaierror"          -> {"gaierror", "OSError", "Exception", "BaseException"}
      [] cls = "TypeError"         -> {"TypeError", "Exception", "BaseException"}
      [] cls = "OverflowError"     -> {"OverflowError", "ArithmeticError", "Exception",
                                       "BaseException"}
      [] cls = "KeyError"          -> {"KeyError", "LookupError", "Exception", "BaseException"}
      [] cls = "AttributeError"    -> {"AttributeError", "Exception", "BaseException"}

\* `except types`: the exception is an instance of one of the types
isinstance(cls, types) == BaseClasses(cls) \cap types # {}

\* error_handlers: None or a dict from exception types to (message, return
\* code); the message is only logged
RegisteredTypes == {"TypeError", "ArithmeticError", "OverflowError"}

ErrorHandlers == UNION {[T -> 2..MaxReturnCode] : T \in SUBSET RegisteredTypes}

\* what HtsgetHttpServer(**kwargs) raises when it fails: the bind or the
\* address lookup (OSError, gaierror), the arguments (TypeError), a port out
\* of range (OverflowError), an interrupt
ServerFailures == {"OSError", "gaierror", "TypeError", "OverflowError", "KeyboardInterrupt"}

\* HtsgetServerRunner(): self.server = None; the call of run_interruptible.
\* server is the attribute of the runner (None or the server object), socket
\* the state of the socket the constructor of the server creates, backlog the
\* connections made to it and not accepted
NewRunner(error_handlers, error_on_interrupt) ==
    [pc |-> "signals", error_handlers |-> error_handlers,
     error_on_interrupt |-> error_on_interrupt, signals |-> "default",
     server |-> "None", socket |-> "none", exc |-> "none", retcode |-> 0, stops |-> 0,
     returned |-> <<>>, backlog |-> 0]

RunIdle == runner = NewRunner(<<>>, FALSE)

\* the signal callbacks are registered, retcode = 0
RegisterSignals ==
    /\ runner.pc = "signals"
    /\ runner' = [runner EXCEPT !.pc = "try", !.signals = "callbacks", !.retcode = 0]
    /\ UNCHANGED <<routerVars, serverVars, scanVars>>

\* runnable.run(**kwargs), HtsgetServerRunner.run: self.server =
\* HtsgetHttpServer(**kwargs). The constructor fails before its socket
\* listens and self.server stays None; or it returns, its socket listening
\* from server_activate(), and an interrupt arrives before the assignment
\* (self.server stays None) or after it; or the assignment completes and run
\* returns.
RunnableRun ==
    /\ runner.pc = "try"
    /\ \/ \E exc \in ServerFailures :
              runner' = [runner EXCEPT !.pc = "except", !.exc = exc]
       \/ runner' = [runner EXCEPT !.pc = "except", !.socket = "listening",
                                   !.exc = "KeyboardInterrupt"]
       \/ runner' = [runner EXCEPT !.pc = "finally", !.server = "HtsgetHttpServer",
                                   !.socket = "listening"]
       \/ runner' = [runner EXCEPT !.pc = "except", !.server = "HtsgetHttpServer",
                                   !.socket = "listening", !.exc = "KeyboardInterrupt"]
    /\ UNCHANGED <<routerVars, serverVars, scanVars>>

\* a client connects to the listening socket: the connection waits in the
\* socket's queue for an accept. Nothing that run or run_interruptible calls
\* (no serve_forever, no handle_request) takes a connection from the queue.
Connect ==
    /\ runner.socket = "listening"
    /\ runner.backlog < MaxConnections
    /\ runner' = [runner EXCEPT !.backlog = @ + 1]
    /\ UNCHANGED <<routerVars, serverVars, scanVars>>

\* a server object that was constructed and never assigned to self.server is
\* referenced by nothing once the interrupt has left run: the interpreter
\* reclaims it at a moment of its choosing and its socket is closed then,
\* without server_close; the connections waiting in its queue are reset
ReclaimServer ==
    /\ runner.pc # "try"
    /\ runner.server = "None"
    /\ runner.socket = "listening"
    /\ runner' = [runner EXCEPT !.socket = "closed"]
    /\ UNCHANGED <<routerVars, serverVars, scanVars>>

\* the except clauses in their order; error_handlers[type(err)] raises
\* KeyError when the exception is of a subclass of a registered type
ExceptClauses ==
    /\ runner.pc = "except"
    /\ LET exc == runner.exc
           err_types == DOMAIN runner.error_handlers
       IN  runner' =
             IF isinstance(exc, {"KeyboardInterrupt"})
             THEN [runner EXCEPT !.pc = "finally", !.exc = "none",
                                 !.retcode = IF runner.error_on_interrupt
                                             THEN RETCODE_INTERRUPTED ELSE @]
             ELSE IF isinstance(exc, {"OSError"})
             THEN [runner EXCEPT !.pc = "finally", !.exc = "none", !.retcode = RETCODE_ERROR]
             ELSE IF isinstance(exc, err_types)
             THEN IF exc \in err_types
                  THEN [runner EXCEPT !.pc = "finally", !.exc = "none",
                                      !.retcode = runner.error_handlers[exc]]
                  ELSE [runner EXCEPT !.pc = "finally", !.exc = "KeyError"]
             ELSE [runner EXCEPT !.pc = "finally", !.exc = "none", !.retcode = RETCODE_ERROR]
    /\ UNCHANGED <<routerVars, serverVars, scanVars>>

\* finally: runnable.stop(), HtsgetServerRunner.stop: self.server.server_close().
\* With self.server None the attribute access raises AttributeError; an
\* exception leaves run_interruptible from the finally clause.
FinallyStop ==
    /\ runner.pc = "finally"
    /\ runner' =
          IF runner.server = "None"
          THEN [runner EXCEPT !.pc = "raised", !.stops = @ + 1, !.exc = "AttributeError"]
          ELSE IF runner.exc # "none"
          THEN [runner EXCEPT !.pc = "raised", !.stops = @ + 1, !.socket = "closed"]
          ELSE [runner EXCEPT !.pc = "reset", !.stops = @ + 1, !.socket = "closed"]
    /\ UNCHANGED <<routerVars, serverVars, scanVars>>

\* the signal dispositions are set back to the default; return retcode
ResetSignals ==
    /\ runner.pc = "reset"
    /\ runner' = [runner EXCEPT !.pc = "returned", !.signals = "default",
                                !.returned = <<runner.retcode>>]
    /\ UNCHANGED <<routerVars, serverVars, scanVars>>

\* ------------------------------------------------------------------------
\* Requests
\* ------------------------------------------------------------------------
Request(headers, path, query) == [headers |-> headers, path |-> path, query |-> query]

NoHeaders == <<>>
AcceptHeader(accept) == [Accept |-> accept]
TEXT_PLAIN == <<"t", "e", "x", "t", "/", "p", "l", "a", "i", "n">>

Slash(segment) == <<"/">> \o segment
ID1 == <<"i", "d", "1">>
ID2 == <<"i", "d", "2">>

FormatField(value) == <<FORMAT, value>>

\* the requests of the concurrent specification
TicketRequests ==
    { Request(NoHeaders, Slash(TICKETS), <<>>),
      Request(AcceptHeader(APPLICATION \o JSON), Slash(TICKETS), <<FormatField(<<"b", "a", "m">>)>>),
      Request(NoHeaders, Slash(TICKETS), <<FormatField(<<"x">>)>>),
      Request(NoHeaders, Slash(TICKETS) \o Slash(ID1), <<>>),
      Request(NoHeaders, Slash(READS), <<>>),
      Request(NoHeaders, Slash(READS) \o Slash(ID1), <<>>),
      Request(NoHeaders, Slash(ID1), <<>>),
      Request(AcceptHeader(TEXT_PLAIN), Slash(TICKETS), <<>>) }


\* the version texts of the Accept headers: up to MaxVersionLen components,
\* each of VersionParts, joined by "."
VersionParts == {<<"0">>, <<"1">>, <<"2">>, <<"9">>, <<"x">>}

VersionComponents == SeqsUpTo(VersionParts, MaxVersionLen) \ {<<>>}

RECURSIVE Join(_, _)
Join(pieces, sep) ==
    IF Len(pieces) = 0 THEN <<>>
    ELSE IF Len(pieces) = 1 THEN pieces[1]
    ELSE pieces[1] \o <<sep>> \o Join(Tail(pieces), sep)

VersionedAccept(components) == APPLICATION \o VND_PREFIX \o Join(components, ".") \o PLUS_JSON

VersionedHeaders == {VersionedAccept(c) : c \in VersionComponents}

\* the same media type written in upper case after "application/"
UpperVersionedHeaders ==
    {APPLICATION \o upper(VND_PREFIX \o Join(c, ".") \o PLUS_JSON) :
        c \in {<<(<<"1">>), (<<"1">>), (<<"0">>)>>}}

\* Accept headers without a version
JsonHeaders == {APPLICATION \o JSON, APPLICATION \o upper(JSON)}

NonApplicationHeaders ==
    { TEXT_PLAIN,
      <<"A">> \o Tail(APPLICATION) \o JSON,
      <<"*", "/", "*">>,
      <<>> }

OtherApplicationHeaders ==
    { APPLICATION,
      APPLICATION \o <<"x", "m", "l">>,
      APPLICATION \o JSON \o <<";", "q", "=", "1">>,
      APPLICATION \o VND_PREFIX \o <<"1", ".", "1", ".", "0">>,
      APPLICATION \o <<"1", ".", "1", ".", "0">> \o PLUS_JSON }

AcceptHeaders ==
    VersionedHeaders \cup UpperVersionedHeaders \cup JsonHeaders \cup NonApplicationHeaders
        \cup OtherApplicationHeaders

NegotiationHeaders == {NoHeaders} \cup {AcceptHeader(a) : a \in AcceptHeaders}

\* request paths on the default router
RecordPaths ==
    { Slash(READS) \o Slash(ID1),
      Slash(READS) \o Slash(ID1) \o Slash(ID2),
      Slash(VARIANTS) \o Slash(ID1) }

BarePaths == {Slash(READS), Slash(VARIANTS), Slash(BLOCK), Slash(BLOCK) \o Slash(ID1)}

UnroutablePaths == {<<>>, <<"/">>, READS, Slash(ID1), Slash(ID1) \o Slash(READS)}

NegotiationRequests ==
    {Request(h, p, q) : h \in NegotiationHeaders,
                        p \in RecordPaths \cup BarePaths \cup UnroutablePaths,
                        q \in {<<>>, <<(<<"x">>)>>}}

\* the index resource of the inheriting handler's default record
DefaultIndex ==
    resolve(<<>>, [type |-> "str", value |-> default_format("InheritingApiRouteHandler")],
            index_format("InheritingApiRouteHandler")).index_resource

Init ==
    /\ routes = TicketsRouter
    /\ RouterIdle
    /\ ServerIdle
    /\ ScanIdle
    /\ RunIdle
    /\ indexes \in SUBSET {DefaultIndex}

Next ==
    \E w \in Workers :
        \/ ProcessRequest(w, TicketRequests)
        \/ CheckHeaders(w)
        \/ RouteRequest(w)
        \/ CallHandler(w)
        \/ Resolve(w)
        \/ CacheCheck(w)
        \/ CacheRead(w)
        \/ IndexCheck(w)
        \/ CreateIndex(w)
        \/ AddResource(w)
        \/ BuildTicket(w)
        \/ AcquireLock(w)
        \/ CacheInsert(w)
        \/ ReleaseLock(w)
        \/ SendTicket(w)
        \/ HandleError(w)

Spec == Init /\ [][Next]_vars

\* One request at a time on the default router, over every Accept header and
\* path of NegotiationRequests
InitNegotiation ==
    /\ routes = create_default_router
    /\ RouterIdle
    /\ ServerIdle
    /\ ScanIdle
    /\ RunIdle
    /\ indexes = {}

NextNegotiation ==
    \/ ProcessRequest(1, NegotiationRequests)
    \/ CheckHeaders(1)
    \/ RouteRequest(1)
    \/ CallHandler(1)
    \/ HandleError(1)

SpecNegotiation == InitNegotiation /\ [][NextNegotiation]_vars

\* get_bam_header_size on every file of BamFiles
InitScan ==
    /\ routes = EmptyDict
    /\ RouterIdle
    /\ ServerIdle
    /\ indexes = {}
    /\ bam \in BamFiles
    /\ scan \in {[NewScan EXCEPT !.has_ushort = u] : u \in ReaderHasUshort}
    /\ index = NoIndex
    /\ RunIdle

NextScan ==
    \/ ReadBamHeader
    \/ ReadBgzfBlock
    \/ ReturnHeaderSize

SpecScan == InitScan /\ [][NextScan]_vars

\* the statements of ApiRouteHandler.handle, for worker w
HandleStep(w) ==
    \/ Resolve(w)
    \/ CacheCheck(w)
    \/ CacheRead(w)
    \/ IndexCheck(w)
    \/ CreateIndex(w)
    \/ AddResource(w)
    \/ BuildTicket(w)
    \/ AcquireLock(w)
    \/ CacheInsert(w)
    \/ ReleaseLock(w)
    \/ SendTicket(w)
    \/ HandleError(w)

\* Concurrent requests for the record of the inheriting handler in its default
\* format and in formats named by the query: the cache keys do_GET can hand
\* to one handler
KeyRequests ==
    { Request(NoHeaders, Slash(TICKETS), <<>>),
      Request(NoHeaders, Slash(TICKETS), <<FormatField(<<"b", "a", "m">>)>>),
      Request(NoHeaders, Slash(TICKETS), <<FormatField(<<"v", "c", "f">>)>>),
      Request(NoHeaders, Slash(TICKETS), <<FormatField(<<"c", "r", "a", "m">>)>>) }

NextKeys ==
    \E w \in Workers :
        \/ ProcessRequest(w, KeyRequests)
        \/ CheckHeaders(w)
        \/ RouteRequest(w)
        \/ CallHandler(w)
        \/ HandleStep(w)

SpecKeys == Init /\ [][NextKeys]_vars

\* get_bam_header_size with each index of Indexes
InitIndex ==
    /\ routes = EmptyDict
    /\ RouterIdle
    /\ ServerIdle
    /\ indexes = {}
    /\ bam = BamFile(0, <<>>, <<>>)
    /\ scan = NewScan
    /\ index \in Indexes
    /\ RunIdle

NextIndex == ReturnMinOffset

SpecIndex == InitIndex /\ [][NextIndex]_vars

InitRun ==
    /\ routes = EmptyDict
    /\ RouterIdle
    /\ ServerIdle
    /\ indexes = {}
    /\ ScanIdle
    /\ runner \in {NewRunner(error_handlers, error_on_interrupt) :
                       error_handlers \in ErrorHandlers, error_on_interrupt \in BOOLEAN}

NextRun ==
    \/ RegisterSignals
    \/ RunnableRun
    \/ Connect
    \/ ReclaimServer
    \/ ExceptClauses
    \/ FinallyStop
    \/ ResetSignals

SpecRun == InitRun /\ [][NextRun]_vars

NextRouter ==
    \/ \E path \in Paths, handler \in Handlers : AddRoute(path, handler)
    \/ \E path \in LookupPaths : GetRouteHandler(path)

InitRouter ==
    /\ routes = EmptyDict
    /\ RouterIdle
    /\ ServerIdle
    /\ ScanIdle
    /\ RunIdle
    /\ indexes = {}

SpecRouter == InitRouter /\ [][NextRouter]_vars

\* ------------------------------------------------------------------------
\* Properties
\* ------------------------------------------------------------------------
IsPrefix(p, q) == Len(p) <= Len(q) /\ SubSeq(q, 1, Len(p)) = p

IsProperPrefix(p, q) == Len(p) < Len(q) /\ SubSeq(q, 1, Len(p)) = p

RegisteredPaths == {registered[i].path : i \in 1..Len(registered)}

\* the latest add_route call that returned for path P
LastIndex(P) ==
    CHOOSE i \in 1..Len(registered) :
        /\ registered[i].path = P
        /\ \A j \in (i + 1)..Len(registered) : registered[j].path # P

LastBinding(P) == registered[LastIndex(P)].handler

\* a proper prefix of P was registered after P
Overwritten(P) ==
    \E j \in (LastIndex(P) + 1)..Len(registered) : IsProperPrefix(registered[j].path, P)

\* the get_route_handler call of the run has been made
LookedUp == lookup.result.err # "unset"

\* the call returned P's latest handler and the segments after P
ResolvesFrom(P) ==
    /\ lookup.result.err = "none"
    /\ lookup.result.handler = LastBinding(P)
    /\ lookup.result.rest = SubSeq(lookup.path, Len(P) + 1, Len(lookup.path))

UnregisteredNotFound ==
    (~\E P \in RegisteredPaths : IsPrefix(P, lookup.path)) => lookup.result.err = "NotFound"

\* C1 as stated: after any sequence of add_route calls every registered path P
\* resolves to (its latest handler, []), P + extra to (that handler, extra),
\* and a path with no registered prefix fails with NotFound.
C1_AnyRegisteredPathResolves ==
    LookedUp =>
        /\ \A P \in RegisteredPaths : IsPrefix(P, lookup.path) => ResolvesFrom(P)
        /\ UnregisteredNotFound

\* C1 amended: the same for every registered path P no proper prefix of which
\* was registered after P's latest registration.
C1_UnshadowedPathResolves ==
    LookedUp =>
        /\ \A P \in RegisteredPaths :
               (IsPrefix(P, lookup.path) /\ ~Overwritten(P)) => ResolvesFrom(P)
        /\ UnregisteredNotFound

\* a path registered twice with different handlers, looked up with an extra
\* segment, gave the later handler and the extra segment
C1_Witness ==
    \E i, j \in 1..Len(registered) :
        /\ i < j
        /\ registered[i].path = registered[j].path
        /\ registered[i].handler # registered[j].handler
        /\ IsProperPrefix(registered[j].path, lookup.path)
        /\ lookup.result.err = "none"
        /\ lookup.result.handler = registered[j].handler
        /\ lookup.result.rest = SubSeq(lookup.path, Len(registered[j].path) + 1, Len(lookup.path))

Checked(w) == "check_headers" \in did[w]

Rejected(w) ==
    /\ Checked(w)
    /\ frame[w].err.cls = "UnsupportedMediaTypeHttpError"
    /\ frame[w].err.status = UNSUPPORTED_MEDIA_TYPE

Accepted(w) == Checked(w) /\ frame[w].err.cls # "UnsupportedMediaTypeHttpError"

Routed(w) == "route_request" \in did[w]

HasAccept(w, accept) ==
    /\ "Accept" \in DOMAIN request[w].headers
    /\ request[w].headers["Accept"] = accept

\* the rule of the claim on the components of a version text
ClaimAccepts(components) ==
    /\ Len(components) = 3
    /\ Ints(components).err = "none"
    /\ ~TupleLess(Ints(components).value, HTSGET_VERSION)
    /\ Ints(components).value[1] <= HTSGET_VERSION[1]

\* C2 as stated: a versioned Accept header is accepted exactly when its three
\* components are integers, not older than 1.1.0, and of major at most 1; it
\* is rejected with 415 otherwise.
C2_VersionRule ==
    \A w \in Workers : Checked(w) =>
        \A c \in VersionComponents : HasAccept(w, VersionedAccept(c)) =>
            /\ ClaimAccepts(c) => Accepted(w)
            /\ ~ClaimAccepts(c) => Rejected(w)

V_2_0_0 == VersionedAccept(<<(<<"2">>), (<<"0">>), (<<"0">>)>>)

\* C3 as stated: Accept application/vnd.ga4gh.htsget.v2.0.0+json passes
\* check_headers and goes on to routing.
C3_NewerMajorAccepted ==
    \A w \in Workers : (Checked(w) /\ HasAccept(w, V_2_0_0)) => Accepted(w)

\* C3 amended: that header fails check_headers with UnsupportedMediaType (415)
\* and the request never reaches routing.
C3_NewerMajorRejected ==
    \A w \in Workers : (Checked(w) /\ HasAccept(w, V_2_0_0)) => (Rejected(w) /\ ~Routed(w))

C3_Witness ==
    \E w \in Workers :
        /\ HasAccept(w, V_2_0_0)
        /\ pc[w] = "done"
        /\ response[w].status = UNSUPPORTED_MEDIA_TYPE

\* C4: without an Accept header and with Accept application/json check_headers
\* passes; an Accept header that does not begin with application/, or whose
\* remainder is neither json nor the versioned pattern, fails with 415 and
\* the request is not routed.
C4_UnversionedHeaders ==
    \A w \in Workers : Checked(w) =>
        /\ "Accept" \notin DOMAIN request[w].headers => Accepted(w)
        /\ HasAccept(w, APPLICATION \o JSON) => Accepted(w)
        /\ \A a \in NonApplicationHeaders \cup OtherApplicationHeaders :
               HasAccept(w, a) => (Rejected(w) /\ ~Routed(w))

C4_Witness ==
    /\ \E w \in Workers :
        /\ HasAccept(w, TEXT_PLAIN)
        /\ pc[w] = "done"
        /\ response[w].status = UNSUPPORTED_MEDIA_TYPE
        /\ ~Routed(w)

AcceptableHeaders == {NoHeaders, AcceptHeader(APPLICATION \o JSON)}

\* C5 as stated: on the default router a GET of /reads/<id> or /variants/<id>
\* with an acceptable Accept header is answered with status 200 and the
\* serialized ticket.
C5_RecordRequestAnswered ==
    \A w \in Workers :
        ( /\ pc[w] = "done"
          /\ request[w].path \in RecordPaths
          /\ request[w].headers \in AcceptableHeaders
          /\ request[w].query = <<>> )
        => /\ response[w].status = OK
           /\ \E format \in {<<"B", "A", "M">>, <<"V", "C", "F">>} :
                  response[w].body = DumpsTicket(format, None)

\* C6 as stated: a failed request is answered with the status and the kind of
\* its failure: 404 and NotFound for an unresolvable route, 415 and
\* UnsupportedMediaType for an unsatisfiable Accept header, in a body
\* {htsget: {error: kind, message: text}}.
C6_ErrorResponse ==
    \A w \in Workers : pc[w] = "done" =>
        /\ ( /\ request[w].headers \in AcceptableHeaders
             /\ request[w].path \in UnroutablePaths )
           => /\ response[w].status = NOT_FOUND
              /\ response[w].body =
                     DumpsError(<<"NotFound">>, <<"The resource requested was not found">>)
        /\ \A a \in NonApplicationHeaders : HasAccept(w, a) =>
              /\ response[w].status = UNSUPPORTED_MEDIA_TYPE
              /\ response[w].body =
                     DumpsError(<<"UnsupportedMediaType">>,
                                <<"The requested media type is unsupported: ">> \o a)

\* C7: a key present in a handler's cache stays present with the same payload
\* in every step of every worker.
C7_CacheWriteOnce ==
    [][\A h \in ApiHandlers : \A k \in DOMAIN cache[h] :
           k \in DOMAIN cache'[h] /\ cache'[h][k] = cache[h][k]]_vars

\* two workers have both run the check-then-insert step for one key
C7_Witness ==
    \E w1, w2 \in Workers :
        /\ w1 # w2
        /\ "insert" \in did[w1] /\ "insert" \in did[w2]
        /\ frame[w1].handler = frame[w2].handler
        /\ frame[w1].data_resource = frame[w2].data_resource
        /\ frame[w1].data_resource \in DOMAIN cache[frame[w1].handler]

Resolved(w) == "resolve" \in did[w] /\ frame[w].data_resource # NoResource

StartedAfterCached(w) ==
    Resolved(w) /\ frame[w].data_resource \in cachedAtStart[w][frame[w].handler]

\* handle reached its response statements: the 200 head was sent and
\* ticket_str handed to wfile.write
Answered(w) == "send" \in did[w]

\* C8: a request that starts once its key is cached does no index check, no
\* create_index, no add_resource and no ticket building, and the payload it
\* answers with is the stored payload.
C8_CachedKeySkipsWork ==
    \A w \in Workers : StartedAfterCached(w) =>
        /\ did[w] \cap {"index_check", "create_index", "add_resource", "build", "insert"} = {}
        /\ pc[w] = "done" =>
              /\ Answered(w)
              /\ frame[w].data_resource \in DOMAIN cache[frame[w].handler]
              /\ frame[w].ticket_str = cache[frame[w].handler][frame[w].data_resource]

C8_Witness ==
    \E w \in Workers :
        /\ StartedAfterCached(w)
        /\ pc[w] = "done"
        /\ Answered(w)

SameTicketRequest(w1, w2) ==
    /\ Resolved(w1) /\ Resolved(w2)
    /\ frame[w1].handler = frame[w2].handler
    /\ frame[w1].sub_route = frame[w2].sub_route
    /\ frame[w1].data_format = frame[w2].data_format

\* C9: two requests for the same record and format answered by one handler
\* get the same payload, whichever of them hit or missed the cache.
C9_SamePayload ==
    \A w1, w2 \in Workers :
        ( /\ SameTicketRequest(w1, w2)
          /\ Answered(w1)
          /\ Answered(w2) )
        => frame[w1].ticket_str = frame[w2].ticket_str

\* one request missed the cache and built its ticket, the other hit, and both
\* were answered
C9_Witness ==
    \E w1, w2 \in Workers :
        /\ w1 # w2
        /\ SameTicketRequest(w1, w2)
        /\ Answered(w1)
        /\ Answered(w2)
        /\ "build" \in did[w1]
        /\ "cache_read" \in did[w2]

RECURSIVE SumOf(_)
SumOf(numbers) == IF Len(numbers) = 0 THEN 0 ELSE Head(numbers) + SumOf(Tail(numbers))

\* the bytes of the header of the file: base + L + the sum of (8 + ln_i)
DeclaredHeaderSize(base) ==
    base + bam.l_text + SumOf([i \in 1..Len(bam.l_names) |-> 8 + bam.l_names[i]])

\* the declared uncompressed size of the first n blocks
DecodedSoFar(n) == SumISize(SubSeq(bam.blocks, 1, n))

ScanEnded == scan.pc \in {"returned", "raised"}

\* a file with an empty header text, no reference and one well-formed block
\* declaring `isize` uncompressed bytes
SingleBlockFile(isize) ==
    /\ bam.l_text = 0
    /\ bam.l_names = <<>>
    /\ Len(bam.blocks) = 1
    /\ bam.blocks[1] = WellFormed(bam.blocks[1].bsize, isize)

ReadsOneBlockAndReturns ==
    /\ scan.pc = "returned"
    /\ scan.blocks_read = 1
    /\ scan.result = bam.blocks[1].bsize + 1

\* C10 as stated: uncompressedHeaderSize is 4 + 4 + L + sum of (8 + ln_i); a
\* file with L = 0, no reference and a single block declaring exactly 8 bytes
\* and BSIZE K is scanned by reading that block alone and gives K + 1.
C10_HeaderSizeFromEight ==
    /\ scan.pc \in {"blocks", "returned"} => scan.uncompressed_size = DeclaredHeaderSize(8)
    /\ (ScanEnded /\ SingleBlockFile(8)) => ReadsOneBlockAndReturns

\* C10 amended: uncompressedHeaderSize is 12 + L + sum of (8 + ln_i) (the 4
\* bytes of the reference count included); a scan that returns stopped at the
\* first block at which the declared sizes reach it; for the file with L = 0,
\* no reference and a single block declaring exactly 12 bytes and BSIZE K the
\* only offset the scan gives is K + 1, after reading that block alone (it
\* gives none when reader.ushort() raises, before a block is counted), and
\* the same file declaring 8 bytes gives no result at all.
C10_HeaderSizeFromTwelve ==
    /\ scan.pc \in {"blocks", "returned"} => scan.uncompressed_size = DeclaredHeaderSize(12)
    /\ scan.pc = "returned" =>
          /\ DecodedSoFar(scan.blocks_read) >= scan.uncompressed_size
          /\ \A n \in 0..(scan.blocks_read - 1) : DecodedSoFar(n) < scan.uncompressed_size
    /\ (ScanEnded /\ SingleBlockFile(12)) =>
          \/ ReadsOneBlockAndReturns
          \/ scan.pc = "raised" /\ scan.error = "AttributeError" /\ scan.blocks_read = 0
    /\ (ScanEnded /\ SingleBlockFile(8)) => scan.pc = "raised"

C10_Witness ==
    /\ SingleBlockFile(12)
    /\ ReadsOneBlockAndReturns

AllFileOffsets == {FileOffsetsOf(index.ref_indexes)[i] : i \in 1..Len(FileOffsetsOf(index.ref_indexes))}

\* C11: with an index, get_bam_header_size returns the least file offset over
\* every interval of every reference entry, whatever their order; for the
\* offsets {500, 200, 800} it returns 200.
C11_MinimumOffset ==
    (index.given /\ scan.pc = "returned") =>
        /\ scan.result \in AllFileOffsets
        /\ \A offset \in AllFileOffsets : scan.result <= offset
        /\ AllFileOffsets = {500, 200, 800} => scan.result = 200

\* the offsets 500, 200, 800 in that order over two reference entries
C11_Witness ==
    /\ index.given
    /\ FileOffsetsOf(index.ref_indexes) = <<500, 200, 800>>
    /\ Len(index.ref_indexes) = 2
    /\ scan.pc = "returned"
    /\ scan.result = 200

HeaderWellFormed(b) == b.xlen = 6 /\ b.ids = <<66, 67>> /\ b.slen = 2

\* block i is malformed, the blocks before it are not, and they declare less
\* than the header's size: the loop reaches block i
ReachesMalformed(i) ==
    /\ ~HeaderWellFormed(bam.blocks[i])
    /\ \A j \in 1..(i - 1) : HeaderWellFormed(bam.blocks[j])
    /\ DecodedSoFar(i - 1) < DeclaredHeaderSize(12)

\* C12: a block header with extra-field length not 6, subfield identifiers
\* not (66, 67) or subfield length not 2, in a block read before the stop
\* condition holds, makes the scan fail; no offset is returned for the file.
C12_MalformedBlockFails ==
    /\ scan.pc = "returned" =>
           \A i \in 1..scan.blocks_read : HeaderWellFormed(bam.blocks[i])
    /\ (ScanEnded /\ \E i \in 1..Len(bam.blocks) : ReachesMalformed(i)) =>
           /\ scan.pc = "raised"
           /\ (scan.uncompressed_size > 0 /\ scan.has_ushort) => scan.error = "ValueError"

\* the second block is the malformed one: the scan read the first and failed
C12_Witness ==
    /\ Len(bam.blocks) = 2
    /\ ReachesMalformed(2)
    /\ scan.pc = "raised"
    /\ scan.error = "ValueError"
    /\ scan.blocks_read = 1

InHandle(w) ==
    pc[w] \in {"resolve", "cache_check", "cache_read", "index_check", "create_index",
              "add_resource", "build", "acquire", "insert", "release", "send"}

\* worker w is inside handle and its next statement cannot be executed
Blocked(w) == InHandle(w) /\ ~ENABLED HandleStep(w)

HoldsLock(w) == InHandle(w) /\ cache_lock[frame[w].handler] = w

DifferentKeys(a, b) ==
    /\ a # b
    /\ frame[a].handler = frame[b].handler
    /\ frame[a].data_resource # NoResource
    /\ frame[b].data_resource # NoResource
    /\ frame[a].data_resource # frame[b].data_resource

\* C13: calls of one handler for different keys never block each other: no
\* worker handling key A waits while a worker handling key B holds the lock;
\* a worker that waits does so at the acquisition of the cache lock, for a
\* worker handling the same key that is between acquire and release.
C13_DifferentKeysNeverBlock ==
    /\ \A a, b \in Workers : DifferentKeys(a, b) => ~(Blocked(a) /\ HoldsLock(b))
    /\ \A a \in Workers : Blocked(a) =>
          /\ pc[a] = "acquire"
          /\ \E b \in Workers \ {a} :
                 /\ HoldsLock(b)
                 /\ pc[b] \in {"insert", "release"}
                 /\ frame[b].handler = frame[a].handler
                 /\ frame[b].data_resource = frame[a].data_resource

\* while a worker holds the cache lock for its key, a worker handling another
\* key of the same handler is past the index creation and can take its next
\* step
C13_Witness ==
    \E a, b \in Workers :
        /\ DifferentKeys(a, b)
        /\ HoldsLock(b)
        /\ pc[a] = "build"
        /\ "create_index" \in did[a]
        /\ ~Blocked(a)

InCriticalSection(w) == pc[w] \in {"insert", "release"}

\* C14: the cache lock covers only the check-then-insert: a worker holds it
\* exactly between acquire and release, at most one worker of a handler is
\* there at a time, no worker holds it during the index check, create_index,
\* add_resource or the ticket building, nor after it left handle.
C14_LockScope ==
    /\ \A w \in Workers :
           InCriticalSection(w) <=> (\E h \in ApiHandlers : cache_lock[h] = w)
    /\ \A w \in Workers : InCriticalSection(w) => cache_lock[frame[w].handler] = w
    /\ \A a, b \in Workers :
           (a # b /\ InCriticalSection(a) /\ InCriticalSection(b))
               => frame[a].handler # frame[b].handler
    /\ \A h \in ApiHandlers : cache_lock[h] \in Workers \cup {0}

\* two workers missed the cache for the same key and both executed
\* create_index and add_resource for it
C14_Witness ==
    \E a, b \in Workers :
        /\ a # b
        /\ frame[a].handler = frame[b].handler
        /\ frame[a].data_resource # NoResource
        /\ frame[a].data_resource = frame[b].data_resource
        /\ {"create_index", "add_resource"} \subseteq did[a]
        /\ {"create_index", "add_resource"} \subseteq did[b]
        /\ "cache_read" \notin did[a] \cup did[b]

\* the statements that belong to the execution of a route handler
HandlerSteps ==
    {"call", "resolve", "cache_check", "cache_read", "index_check", "create_index",
     "add_resource", "build", "acquire", "insert", "release", "send"}

HandlerInvoked(w) == did[w] \cap HandlerSteps # {}

\* route_request was executed and found no handler
RoutingFailed(w) == Routed(w) /\ frame[w].handler = "none" /\ pc[w] \in {"handle_error", "done"}

\* C15: within a request validation precedes routing, which precedes the
\* handler: routing happens only after check_headers returned, a handler runs
\* only after route_request found it; a request that fails validation is
\* neither routed nor handled, a request that fails routing is not handled.
C15_ValidationRoutingHandler ==
    \A w \in Workers :
        /\ Routed(w) => (Checked(w) /\ ~Rejected(w))
        /\ HandlerInvoked(w) => (Routed(w) /\ frame[w].handler # "none")
        /\ pc[w] = "route_request" => Checked(w)
        /\ pc[w] = "call" => Routed(w)
        /\ Rejected(w) => (~Routed(w) /\ ~HandlerInvoked(w) /\ frame[w].handler = "none")
        /\ RoutingFailed(w) => (~HandlerInvoked(w) /\ frame[w].err.cls = "NotFoundHttpError")

\* a request that passed validation and failed routing was answered
C15_Witness ==
    \E w \in Workers :
        /\ RoutingFailed(w)
        /\ Checked(w)
        /\ pc[w] = "done"
        /\ response[w].status = NOT_FOUND

\* the worker wrote a 200 ticket, or an error status with the structured body
OneResponse(w) ==
    /\ response[w].uncaught = "none"
    /\ \/ /\ response[w].status = OK
          /\ \E format \in {<<"B", "A", "M">>, <<"V", "C", "F">>} :
                 response[w].body = DumpsTicket(format, None)
       \/ /\ response[w].status \in {NOT_FOUND, UNSUPPORTED_MEDIA_TYPE, INTERNAL_SERVER_ERROR}
          /\ response[w].body = DumpsError(frame[w].err.error_type, message(frame[w].err).value)

\* C16: a worker that has terminated has produced exactly one response, a 200
\* ticket or a structured error, whatever the path and the Accept header, the
\* reads, variants and block routes of the default router included.
C16_OneResponsePerWorker ==
    \A w \in Workers :
        pc[w] = "done" => (response[w].heads = 1 /\ OneResponse(w))

\* the exception that do_GET wrapped with `raise UnknownHttpError from err`
Wrapped(w) == frame[w].err.cls = "UnknownHttpError" /\ Len(frame[w].err.cause) = 1

OriginalFailure(w) == frame[w].err.cause[1]

\* C17: a worker whose request failed with an exception that is not an
\* HttpError has answered with status 500 and the structured body of kind
\* UnknownError whose message is the message of the original failure, and
\* nothing escaped the worker boundary.
C17_UnknownErrorAnswered ==
    \A w \in Workers :
        (pc[w] = "done" /\ Wrapped(w)) =>
            /\ response[w].status = INTERNAL_SERVER_ERROR
            /\ response[w].uncaught = "none"
            /\ Len(OriginalFailure(w).args) > 0
            /\ response[w].body = DumpsError(<<"UnknownError">>, OriginalFailure(w).args[1])

\* the steps of handle: the data store's resolve and everything after it
HandleSteps == HandlerSteps \ {"call"}

\* an API handler was found for a path with segments left over
HasSubRoute(w) == frame[w].handler \in ApiHandlers /\ Len(frame[w].sub_route) # 0

\* __call__ has run on it
Refused(w) == HasSubRoute(w) /\ "call" \in did[w]

RefusedWithoutWork(w) ==
    /\ frame[w].err = NotFoundHttpError
    /\ pc[w] \in {"handle_error", "done"}
    /\ did[w] \cap HandleSteps = {}
    /\ response[w].status \in {0, NOT_FOUND}

\* C18: an API handler called with a non-empty sub-route raises NotFound and
\* never enters handle: no resolve, no create_index, no add_resource; the
\* call and the error answer that follows it leave the cache, the indexes
\* and the data store's resources as they were.
C18_SubRouteRefused ==
    /\ [](\A w \in Workers : Refused(w) => RefusedWithoutWork(w))
    /\ [][\A w \in Workers :
            (HasSubRoute(w) /\ pc[w] \in {"call", "handle_error"} /\ pc'[w] # pc[w]) =>
                /\ pc'[w] = IF pc[w] = "call" THEN "handle_error" ELSE "done"
                /\ frame'[w].err = NotFoundHttpError
                /\ UNCHANGED <<cache, indexes, resources>>]_vars

\* a refused reads request was answered 404 while another request had filled
\* the cache
C18_Witness ==
    \E w \in Workers :
        /\ Refused(w)
        /\ frame[w].handler = "ReadsApiRouteHandler"
        /\ pc[w] = "done"
        /\ response[w].status = NOT_FOUND
        /\ cache # [h \in ApiHandlers |-> <<>>]

\* the byte offset at which the n-th block of the file ends: a block whose
\* BSIZE field is K is K + 1 bytes long
EndOfBlock(n) == SumOf([i \in 1..n |-> bam.blocks[i].bsize + 1])

\* C19: a scan that returns after reading n >= 1 blocks returns the offset at
\* which the n-th block ends, the sum of BSIZE_i + 1 over the blocks read,
\* which is where the reader stands.
C19_EndOfLastBlock ==
    (~index.given /\ scan.pc = "returned") =>
        /\ scan.blocks_read >= 1
        /\ scan.pos = EndOfBlock(scan.blocks_read)
        /\ scan.result = EndOfBlock(scan.blocks_read)

RunEnded == runner.pc \in {"returned", "raised"}

\* C20: on every exit path of run_interruptible, runnable.stop was called
\* exactly once, the listening resource is closed and the exit code is
\* returned, the paths on which the server object never existed included.
C20_CleanupOnEveryExit ==
    RunEnded =>
        /\ runner.stops = 1
        /\ runner.socket # "listening"
        /\ runner.pc = "returned"
        /\ runner.returned = <<runner.retcode>>

\* C21: every connection that arrived while the server started by run() was
\* listening has been accepted and handed to a worker of its own: when the
\* socket of the server is closed, none is left unaccepted in its queue.
C21_EveryConnectionAccepted ==
    runner.socket = "closed" => runner.backlog = 0

\* the steps of handle that precede the insertion, on a cache miss
StepsBeforeInsert == {"resolve", "cache_check", "index_check", "build", "acquire"}

\* the request ended, or is about to be answered with an error, and never
\* reached the insertion
FailedBeforeInsert(w) == pc[w] \in {"handle_error", "done"} /\ "insert" \notin did[w]

\* worker w, having resolved, indexed and serialized without error, adds its
\* ticket under its key, which was absent, and nothing else changes
InsertsItsTicket(w) ==
    LET h   == frame[w].handler
        key == frame[w].data_resource
    IN  /\ pc[w] = "insert" /\ pc'[w] = "release"
        /\ StepsBeforeInsert \subseteq did[w]
        /\ frame[w].err = NoError
        /\ frame[w].ticket_str = DumpsTicket(upper(frame[w].data_format.value), None)
        /\ key \notin DOMAIN cache[h]
        /\ cache' = [cache EXCEPT ![h] = (key :> frame[w].ticket_str) @@ @]

\* C22: the cache changes only by the insertion of a request that resolved,
\* passed the index test (and create_index and add_resource when the index
\* was missing) and serialized its ticket without error; a
\* request that failed before that holds no cache lock, and a request that
\* finds its key absent at the cache test computes the ticket itself.
C22_CacheGainsOnlyOnSuccess ==
    /\ [](\A w \in Workers : FailedBeforeInsert(w) =>
              \A h \in ApiHandlers : cache_lock[h] # w)
    /\ [][/\ cache' # cache => \E w \in Workers : InsertsItsTicket(w)
          /\ \A w \in Workers :
                (/\ pc[w] = "cache_check" /\ pc'[w] # pc[w]
                 /\ frame[w].data_resource \notin DOMAIN cache[frame[w].handler])
                    => pc'[w] = "index_check"]_vars

\* a request failed at ticket building, after create_index and add_resource,
\* and left no entry; another request for the same key computed the ticket
\* itself and inserted it
C22_Witness ==
    \E w1, w2 \in Workers :
        /\ w1 # w2
        /\ frame[w1].handler = frame[w2].handler
        /\ frame[w1].data_resource = frame[w2].data_resource
        /\ pc[w1] = "done" /\ FailedBeforeInsert(w1)
        /\ {"create_index", "add_resource", "build"} \subseteq did[w1]
        /\ frame[w1].err.cls = "UnknownHttpError"
        /\ frame[w1].data_resource \notin cachedAtStart[w2][frame[w2].handler]
        /\ {"build", "insert"} \subseteq did[w2] /\ "cache_read" \notin did[w2]
        /\ frame[w2].data_resource \in DOMAIN cache[frame[w2].handler]
====
